---- MODULE Spec2Model ----
(***************************************************************************)
(* Model of galera-healthcheck's service_manager.ServiceManager: the five  *)
(* lifecycle handlers (StartServiceBootstrap, StartServiceJoin,            *)
(* StartServiceSingleNode, StopService, GetStatus) and the polling loop    *)
(* waitForGaleraInit.                                                      *)
(*                                                                         *)
(* Each handler runs in the goroutine of the request that invoked it       *)
(* (Procs).  A handler is cut into steps at its calls to the outside world *)
(* (the state file, the monit client, the galera-init HTTP endpoint); the  *)
(* answers of the outside world are chosen nondeterministically.           *)
(* trace[p] is a history variable: the outside calls the current operation *)
(* of p has made, in order, with the answer each one got.  Spec and        *)
(* SpecSeq stop the polling loop after MaxTicks ticks; SpecLive lets it    *)
(* run on and keeps, of the ticks beyond MaxTicks, the latest only.        *)
(***************************************************************************)
EXTENDS Integers, Sequences, FiniteSets, TLC

\* ---------------------------------------------------------------- bounds
\* Largest number of ticks of the polling loop one operation performs.
MaxTicks == 3

\* The request goroutines: two, enough for every interleaving of two handlers.
Procs == { 1, 2 }

\* ------------------------------------------------------- values and errors
\* An error is the chain of its messages, outermost first; nil is <<>>.
NoErr == << >>

New(msg) == << msg >>

Errorf(msg, arg) == << msg, arg >>

Wrap(err, msg) == << msg >> \o err

Arbitrator == "garbd"

ServiceNames == { "mysql", "garbd" }

\* The state file is absent, empty (truncated by a failed write) or holds a token.
Absent == "<absent>"

Tokens == { "NEEDS_BOOTSTRAP", "CLUSTERED", "SINGLE_NODE" }

MarkerValues == Tokens \cup { Absent, "" }

StartIntents == { "Bootstrap", "Join", "SingleNode" }

Intents == StartIntents \cup { "Stop", "Status" }

\* Join and SingleNode write each other's token.
Token_Swapped(intent) ==
    CASE intent = "Bootstrap"  -> "NEEDS_BOOTSTRAP"
      [] intent = "Join"       -> "SINGLE_NODE"
      [] intent = "SingleNode" -> "CLUSTERED"

\* The token a start handler writes to StateFilePath.
Token(intent) ==
    CASE intent = "Bootstrap"  -> "NEEDS_BOOTSTRAP"
      [] intent = "Join"       -> "CLUSTERED"
      [] intent = "SingleNode" -> "SINGLE_NODE"

\* Join returns the message of Bootstrap.
SuccessMessage_Copied(intent) ==
    CASE intent = "Bootstrap"  -> "cluster bootstrap successful"
      [] intent = "Join"       -> "cluster bootstrap successful"
      [] intent = "SingleNode" -> "single node start successful"

\* The string a start handler returns once waitForGaleraInit returned nil.
SuccessMessage(intent) ==
    CASE intent = "Bootstrap"  -> "cluster bootstrap successful"
      [] intent = "Join"       -> "join cluster successful"
      [] intent = "SingleNode" -> "single node start successful"

\* monit_client.ServiceRunning
ServiceRunning == "running"

\* What the monit client can answer.
MonitErrs == { New("monit: request failed") }

StatusValues == { "running", "initializing", "stopped", "" }

\* Status(name) returns a status and an error; a failed query may still
\* carry a status string.
StatusAnswers ==
    { << status, NoErr >> : status \in StatusValues }
        \cup { << status, err >> : status \in { "", "stopped" }, err \in MonitErrs }

\* What ioutil.WriteFile can answer.
WriteErrs == { New("write failed") }

\* What httpClient.Get can answer: a transport error and no response, or a response.
TransportErrs == { New("connection refused or timeout") }

StatusOK == 200

Responses ==
    { [StatusCode |-> 200, Status |-> "200 OK"],
      [StatusCode |-> 201, Status |-> "201 Created"],
      [StatusCode |-> 503, Status |-> "503 Service Unavailable"] }

NoResponse == [StatusCode |-> 0, Status |-> ""]

ProbeAnswers ==
    { << err, NoResponse >> : err \in TransportErrs }
        \cup { << NoErr, res >> : res \in Responses }

\* One entry of trace[p].
Entry(call, err, status, res) ==
    [call |-> call, err |-> err, status |-> status, res |-> res]

\* ------------------------------------------------------------ sidecar API
\* Largest number of requests the router serves.
MaxRequests == 2

ApiUsername == "fake-username"

ApiPassword == "fake-password"

\* A request carries no basic-auth header, or a user name and a password.
NoCreds == << >>

Credentials ==
    { NoCreds,
      << ApiUsername, ApiPassword >>,
      << ApiUsername, "wrong-password" >>,
      << "wrong-username", ApiPassword >> }

ProtectedEndpoints ==
    { "stop_mysql", "start_mysql_bootstrap", "start_mysql_join",
      "start_mysql_single_node", "mysql_status", "sequence_number" }

OpenEndpoints == { "", "galera_status" }

\* The operation the router dispatches an endpoint to.
Operation(endpoint) ==
    CASE endpoint = "stop_mysql"              -> "StopService"
      [] endpoint = "start_mysql_bootstrap"   -> "StartServiceBootstrap"
      [] endpoint = "start_mysql_join"        -> "StartServiceJoin"
      [] endpoint = "start_mysql_single_node" -> "StartServiceSingleNode"
      [] endpoint = "mysql_status"            -> "GetStatus"
      [] endpoint = "sequence_number"         -> "SequenceNumberChecker.Check"
      [] endpoint \in OpenEndpoints           -> "HealthChecker.Check"

Operations == { Operation(e) : e \in ProtectedEndpoints \cup OpenEndpoints }

StatusUnauthorized == 401

StatusNotFound == 404

\* Only the password is not compared.
Authorized_UserOnly(creds) == creds # NoCreds /\ creds[1] = ApiUsername

\* The basic-auth check in front of the lifecycle endpoints.
Authorized(creds) == creds = << ApiUsername, ApiPassword >>

\* -------------------------------------------------- cluster-health-logger
\* Largest number of rows written to the log file.
MaxRows == 4

Timestamps == { "happy-time", "sad-time" }

\* A line of the log file: its first field and the rest of the line.
HeaderLine == << "timestamp", "a,b,c,d,e,f,g,h,i" >>

RowLine(ts) == << ts, "1,2,3,4,5,6,7,8,9" >>

NoFile == [exists |-> FALSE, lines |-> << >>]

\* The headers are written for a missing file only.
NeedsHeader_MissingOnly(file) == ~ file.exists

\* Write puts the headers first when the file is missing or has no content.
NeedsHeader(file) == ~ file.exists \/ file.lines = << >>

\* ------------------------------------------------------------------ state
VARIABLES
    serviceName,    \* m.ServiceName
    marker,         \* content of the file at m.StateFilePath
    pc,             \* pc[p]: where the handler run by p stands
    op,             \* op[p]: the handler p runs or ran last
    trace,          \* trace[p]: outside calls of that handler, with answers
    markerAtStart,  \* markerAtStart[p]: marker when that handler called Start
    result,         \* result[p]: the (string, error) that handler returned
    apiCalls,       \* sidecar API: call count of each operation behind the router
    apiLog,         \* sidecar API: the requests served, with their responses
    logFile,        \* cluster-health-logger: the log file
    logWritten      \* timestamps written since the log file was last absent or empty

smVars == << serviceName, marker, pc, op, trace, markerAtStart, result >>

apiVars == << apiCalls, apiLog >>

logVars == << logFile, logWritten >>

vars == << smVars, apiVars, logVars >>

NoResult == [msg |-> "", err |-> NoErr]

\* A handler starts only when no other handler runs (a lock around the handlers).
Idle_Locked(p) == \A q \in Procs : pc[q] \in { "idle", "done" }

\* p runs no handler: a new request can be dispatched to it.
Idle(p) == pc[p] \in { "idle", "done" }

\* No handler is running: the caller serialises the operations.
Sequential == \A q \in Procs : Idle(q)

Calls(p, c) == { i \in DOMAIN trace[p] : trace[p][i].call = c }

Count(p, c) == Cardinality(Calls(p, c))

Init ==
    /\ serviceName \in ServiceNames
    /\ marker \in Tokens \cup { Absent }
    /\ pc = [p \in Procs |-> "idle"]
    /\ op = [p \in Procs |-> "none"]
    /\ trace = [p \in Procs |-> << >>]
    /\ markerAtStart = [p \in Procs |-> "-"]
    /\ result = [p \in Procs |-> NoResult]
    /\ apiCalls = [o \in Operations |-> 0]
    /\ apiLog = << >>
    /\ logFile = NoFile
    /\ logWritten = << >>

\* What a step of a handler decides: return (msg, err) to the caller, or go on.
Done(msg, err) == [done |-> TRUE, msg |-> msg, err |-> err]

Continue == [done |-> FALSE, msg |-> "", err |-> NoErr]

\* return msg, err
Return(p, msg, err) ==
    /\ pc' = [pc EXCEPT ![p] = "done"]
    /\ result' = [result EXCEPT ![p] = [msg |-> msg, err |-> err]]

\* The handler run by p returns what v says, or goes on at next.
Proceed(p, v, next) ==
    IF v.done
      THEN Return(p, v.msg, v.err)
      ELSE /\ pc' = [pc EXCEPT ![p] = next]
           /\ result' = [result EXCEPT ![p] = NoResult]

\* ----------------------------------------------------------- the handlers
\* The arbitrator check is missing.
BootstrapAllowed_Always(name) == TRUE

\* if m.ServiceName == "garbd" { return "", errors.New(...) }
BootstrapAllowed(name) == name # Arbitrator

\* The error of the write is dropped.
WriteVerdict_Ignored(err) == Continue

\* if err := ioutil.WriteFile(...); err != nil { return "", errors.Wrap(...) }
WriteVerdict(err) ==
    IF err # NoErr
      THEN Done("", Wrap(err, "failed to initialize state file"))
      ELSE Continue

\* The error of Start is dropped and the handler goes on to the wait.
StartVerdict_Ignored(err) == Continue

\* if err := m.MonitClient.Start(m.ServiceName); err != nil { return "", err }
StartVerdict(err) ==
    IF err # NoErr THEN Done("", err) ELSE Continue

\* The error of Stop is wrapped as the error of the write is.
StopVerdict_Wrapped(err) ==
    IF err # NoErr
      THEN Done("", Wrap(err, "failed to stop service"))
      ELSE Done("stop successful", NoErr)

\* The body of StopService after the call of m.MonitClient.Stop.
StopVerdict(err) ==
    IF err # NoErr THEN Done("", err) ELSE Done("stop successful", NoErr)

\* A failed status query is taken for a transient condition.
StatusVerdict_ErrorTolerated(name, status, err) ==
    IF err # NoErr
      THEN Continue
      ELSE IF status # ServiceRunning
             THEN Done("", New("job failed during startup"))
             ELSE Continue

\* A process that is still initializing is waited for.
StatusVerdict_InitializingTolerated(name, status, err) ==
    IF err # NoErr
      THEN Done("", Errorf("error fetching status for service", name))
      ELSE IF status \notin { ServiceRunning, "initializing" }
             THEN Done("", New("job failed during startup"))
             ELSE Continue

\* The two checks of a tick on the answer of m.MonitClient.Status.
StatusVerdict(name, status, err) ==
    IF err # NoErr
      THEN Done("", Errorf("error fetching status for service", name))
      ELSE IF status # ServiceRunning
             THEN Done("", New("job failed during startup"))
             ELSE Continue

\* A transport error ends the wait.
ProbeVerdict_TransportFatal(intent, err, res) ==
    IF err # NoErr
      THEN Done("", err)
      ELSE IF res.StatusCode # StatusOK
             THEN Done("", Errorf("unexpected response from node", res.Status))
             ELSE Done(SuccessMessage(intent), NoErr)

\* Every 2xx response counts as ready.
ProbeVerdict_Any2xx(intent, err, res) ==
    IF err # NoErr
      THEN Continue
      ELSE IF res.StatusCode < 200 \/ res.StatusCode >= 300
             THEN Done("", Errorf("unexpected response from node", res.Status))
             ELSE Done(SuccessMessage(intent), NoErr)

\* A response that is not a 200 is taken for a transient condition.
ProbeVerdict_Non200Retried(intent, err, res) ==
    IF err # NoErr \/ res.StatusCode # StatusOK
      THEN Continue
      ELSE Done(SuccessMessage(intent), NoErr)

\* The checks of a tick on the answer of httpClient.Get; when
\* waitForGaleraInit returns nil the handler returns its success message.
ProbeVerdict(intent, err, res) ==
    IF err # NoErr
      THEN Continue
      ELSE IF res.StatusCode # StatusOK
             THEN Done("", Errorf("unexpected response from node", res.Status))
             ELSE Done(SuccessMessage(intent), NoErr)

\* ioutil.WriteFile(m.StateFilePath, token, 0777) and the handler's reaction.
\* A failed write leaves the file as it was (the open failed) or empty (the
\* open truncated it and the write failed).
WriteStateFile(p, intent) ==
    /\ op' = [op EXCEPT ![p] = intent]
    /\ markerAtStart' = [markerAtStart EXCEPT ![p] = "-"]
    /\ \E err \in WriteErrs \cup { NoErr } :
        /\ trace' = [trace EXCEPT ![p] = << Entry("WriteFile", err, "", NoResponse) >>]
        /\ marker' \in IF err = NoErr THEN { Token(intent) } ELSE { marker, "" }
        /\ Proceed(p, WriteVerdict(err), "start")
    /\ UNCHANGED << serviceName, apiVars, logVars >>

StartServiceBootstrap(p) ==
    /\ Idle(p)
    /\ IF BootstrapAllowed(serviceName)
         THEN WriteStateFile(p, "Bootstrap")
         ELSE /\ op' = [op EXCEPT ![p] = "Bootstrap"]
              /\ trace' = [trace EXCEPT ![p] = << >>]
              /\ markerAtStart' = [markerAtStart EXCEPT ![p] = "-"]
              /\ Return(p, "", New("bootstrapping arbitrator not allowed"))
              /\ UNCHANGED << serviceName, marker, apiVars, logVars >>

\* Join carries the arbitrator check of Bootstrap.
StartServiceJoin_Guarded(p) ==
    /\ Idle(p)
    /\ IF BootstrapAllowed(serviceName)
         THEN WriteStateFile(p, "Join")
         ELSE /\ op' = [op EXCEPT ![p] = "Join"]
              /\ trace' = [trace EXCEPT ![p] = << >>]
              /\ markerAtStart' = [markerAtStart EXCEPT ![p] = "-"]
              /\ Return(p, "", New("bootstrapping arbitrator not allowed"))
              /\ UNCHANGED << serviceName, marker, apiVars, logVars >>

StartServiceJoin(p) ==
    /\ Idle(p)
    /\ WriteStateFile(p, "Join")

StartServiceSingleNode(p) ==
    /\ Idle(p)
    /\ WriteStateFile(p, "SingleNode")

\* m.MonitClient.Start(m.ServiceName) in the three start handlers.
MonitStart(p) ==
    /\ pc[p] = "start"
    /\ markerAtStart' = [markerAtStart EXCEPT ![p] = marker]
    /\ \E err \in MonitErrs \cup { NoErr } :
        /\ trace' = [trace EXCEPT ![p] = Append(@, Entry("Start", err, "", NoResponse))]
        /\ Proceed(p, StartVerdict(err), "wait")
    /\ UNCHANGED << serviceName, marker, op, apiVars, logVars >>

\* Stop waits until no start operation is polling.
StopService_AfterWait(p) ==
    /\ Idle(p)
    /\ \A q \in Procs : pc[q] \notin { "wait", "probe" }
    /\ op' = [op EXCEPT ![p] = "Stop"]
    /\ markerAtStart' = [markerAtStart EXCEPT ![p] = "-"]
    /\ \E err \in MonitErrs \cup { NoErr } :
        /\ trace' = [trace EXCEPT ![p] = << Entry("Stop", err, "", NoResponse) >>]
        /\ Proceed(p, StopVerdict(err), "done")
    /\ UNCHANGED << serviceName, marker, apiVars, logVars >>

StopService(p) ==
    /\ Idle(p)
    /\ op' = [op EXCEPT ![p] = "Stop"]
    /\ markerAtStart' = [markerAtStart EXCEPT ![p] = "-"]
    /\ \E err \in MonitErrs \cup { NoErr } :
        /\ trace' = [trace EXCEPT ![p] = << Entry("Stop", err, "", NoResponse) >>]
        /\ Proceed(p, StopVerdict(err), "done")
    /\ UNCHANGED << serviceName, marker, apiVars, logVars >>

GetStatus(p) ==
    /\ Idle(p)
    /\ op' = [op EXCEPT ![p] = "Status"]
    /\ markerAtStart' = [markerAtStart EXCEPT ![p] = "-"]
    /\ \E ans \in StatusAnswers :
        /\ trace' = [trace EXCEPT ![p] = << Entry("Status", ans[2], ans[1], NoResponse) >>]
        /\ Return(p, ans[1], ans[2])
    /\ UNCHANGED << serviceName, marker, apiVars, logVars >>

\* ------------------------------------------------------ waitForGaleraInit
\* First half of a tick: the status query and the two checks on its answer.
TickStatus(p) ==
    /\ pc[p] = "wait"
    /\ Count(p, "Status") < MaxTicks
    /\ \E ans \in StatusAnswers :
        /\ trace' = [trace EXCEPT ![p] = Append(@, Entry("Status", ans[2], ans[1], NoResponse))]
        /\ Proceed(p, StatusVerdict(serviceName, ans[1], ans[2]), "probe")
    /\ UNCHANGED << serviceName, marker, op, markerAtStart, apiVars, logVars >>

\* After a transport error the probe is repeated without a new status query.
TickProbe_ProbeAgain(p) ==
    /\ pc[p] = "probe"
    /\ Count(p, "Get") < MaxTicks
    /\ \E ans \in ProbeAnswers :
        /\ trace' = [trace EXCEPT ![p] = Append(@, Entry("Get", ans[1], "", ans[2]))]
        /\ Proceed(p, ProbeVerdict(op[p], ans[1], ans[2]), "probe")
    /\ UNCHANGED << serviceName, marker, op, markerAtStart, apiVars, logVars >>

\* Second half of a tick: the GET of the galera-init endpoint.  A transport
\* error goes back to the select (continue); anything else ends the loop.
TickProbe(p) ==
    /\ pc[p] = "probe"
    /\ \E ans \in ProbeAnswers :
        /\ trace' = [trace EXCEPT ![p] = Append(@, Entry("Get", ans[1], "", ans[2]))]
        /\ Proceed(p, ProbeVerdict(op[p], ans[1], ans[2]), "wait")
    /\ UNCHANGED << serviceName, marker, op, markerAtStart, apiVars, logVars >>

\* The first half of a tick after MaxTicks ticks: the loop has no deadline
\* and goes on; of the ticks beyond MaxTicks the trace keeps the latest only
\* (the entries of the tick before are dropped).
PollStatus(p) ==
    /\ pc[p] = "wait"
    /\ Count(p, "Status") = MaxTicks
    /\ \E ans \in StatusAnswers :
        /\ trace' = [trace EXCEPT ![p] =
                        Append(SubSeq(@, 1, Len(@) - 2),
                               Entry("Status", ans[2], ans[1], NoResponse))]
        /\ Proceed(p, StatusVerdict(serviceName, ans[1], ans[2]), "probe")
    /\ UNCHANGED << serviceName, marker, op, markerAtStart, apiVars, logVars >>

\* ------------------------------------------------------------ sidecar API
\* The router serves one request: a lifecycle endpoint without valid
\* credentials is refused, an unknown endpoint is not found, any other
\* request is dispatched to its operation, which answers without error.
ApiRequest(endpoint, creds) ==
    /\ Len(apiLog) < MaxRequests
    /\ IF endpoint \in ProtectedEndpoints /\ ~ Authorized(creds)
         THEN /\ apiCalls' = apiCalls
              /\ apiLog' = Append(apiLog,
                    [endpoint |-> endpoint, creds |-> creds,
                     code |-> StatusUnauthorized,
                     calls |-> apiCalls[Operation(endpoint)]])
         ELSE IF endpoint \notin ProtectedEndpoints \cup OpenEndpoints
                THEN /\ apiCalls' = apiCalls
                     /\ apiLog' = Append(apiLog,
                           [endpoint |-> endpoint, creds |-> creds,
                            code |-> StatusNotFound, calls |-> 0])
                ELSE /\ apiCalls' = [apiCalls EXCEPT ![Operation(endpoint)] = @ + 1]
                     /\ apiLog' = Append(apiLog,
                           [endpoint |-> endpoint, creds |-> creds,
                            code |-> StatusOK,
                            calls |-> apiCalls[Operation(endpoint)] + 1])
    /\ UNCHANGED << smVars, logVars >>

\* -------------------------------------------------- cluster-health-logger
\* LogWriter.Write(ts)
LogWrite(ts) ==
    /\ Len(logWritten) < MaxRows
    /\ logFile' = [exists |-> TRUE,
                   lines  |-> (IF NeedsHeader(logFile)
                                 THEN << HeaderLine >>
                                 ELSE logFile.lines) \o << RowLine(ts) >>]
    /\ logWritten' = Append(logWritten, ts)
    /\ UNCHANGED << smVars, apiVars >>

\* logFile.Truncate(0), by whoever rotates the log.
LogTruncate ==
    /\ logFile.exists
    /\ logFile' = [exists |-> TRUE, lines |-> << >>]
    /\ logWritten' = << >>
    /\ UNCHANGED << smVars, apiVars >>

\* os.Remove(logFile.Name())
LogRemove ==
    /\ logFile.exists
    /\ logFile' = NoFile
    /\ logWritten' = << >>
    /\ UNCHANGED << smVars, apiVars >>

\* --------------------------------------------------------- specifications
\* Handlers run concurrently, as net/http runs them.
Next ==
    \E p \in Procs :
        \/ StartServiceBootstrap(p)
        \/ StartServiceJoin(p)
        \/ StartServiceSingleNode(p)
        \/ StopService(p)
        \/ GetStatus(p)
        \/ MonitStart(p)
        \/ TickStatus(p)
        \/ TickProbe(p)

Spec == Init /\ [][Next]_vars

\* The caller invokes one operation at a time.
NextSeq ==
    \E p \in Procs :
        \/ Sequential /\ StartServiceBootstrap(p)
        \/ Sequential /\ StartServiceJoin(p)
        \/ Sequential /\ StartServiceSingleNode(p)
        \/ Sequential /\ StopService(p)
        \/ Sequential /\ GetStatus(p)
        \/ MonitStart(p)
        \/ TickStatus(p)
        \/ TickProbe(p)

SpecSeq == Init /\ [][NextSeq]_vars

\* The loop without the bound on its ticks, the operations invoked one at a
\* time.  The ticker fires every second and every call returns (the GET
\* within its timeout of one second), so each step of a running handler is
\* eventually taken.
NextLive ==
    \E p \in Procs :
        \/ Sequential /\ StartServiceBootstrap(p)
        \/ Sequential /\ StartServiceJoin(p)
        \/ Sequential /\ StartServiceSingleNode(p)
        \/ Sequential /\ StopService(p)
        \/ Sequential /\ GetStatus(p)
        \/ MonitStart(p)
        \/ TickStatus(p)
        \/ PollStatus(p)
        \/ TickProbe(p)

Fairness ==
    \A p \in Procs :
        /\ WF_vars(MonitStart(p))
        /\ WF_vars(TickStatus(p))
        /\ WF_vars(PollStatus(p))
        /\ WF_vars(TickProbe(p))

SpecLive == Init /\ [][NextLive]_vars /\ Fairness

\* The router alone, as the tests of the API drive it.
NextApi ==
    \/ \E endpoint \in ProtectedEndpoints \cup OpenEndpoints, creds \in Credentials :
            ApiRequest(endpoint, creds)
    \/ ApiRequest("nonexistent_endpoint", << ApiUsername, ApiPassword >>)

SpecApi == Init /\ [][NextApi]_vars

\* The log writer alone, with the file removed or truncated under it.
NextLog ==
    \/ \E ts \in Timestamps : LogWrite(ts)
    \/ LogTruncate
    \/ LogRemove

SpecLog == Init /\ [][NextLog]_vars

TypeOK ==
    /\ serviceName \in ServiceNames
    /\ marker \in MarkerValues
    /\ pc \in [Procs -> { "idle", "start", "wait", "probe", "done" }]
    /\ op \in [Procs -> Intents \cup { "none" }]
    /\ markerAtStart \in [Procs -> MarkerValues \cup { "-" }]
    /\ \A p \in Procs : Len(trace[p]) <= 2 + 2 * MaxTicks
    /\ apiCalls \in [Operations -> 0 .. MaxRequests]
    /\ Len(apiLog) <= MaxRequests
    /\ logFile.exists \in BOOLEAN
    /\ Len(logFile.lines) <= MaxRows + 1
    /\ Len(logWritten) <= MaxRows

\* ------------------------------------------------------------ properties
\* The failure classes, told apart by the message the handler returns.
IsInvalidIntent(err) == err = << "bootstrapping arbitrator not allowed" >>

IsPersistenceFailure(err) ==
    Len(err) >= 2 /\ err[1] = "failed to initialize state file"

IsStatusQueryFailed(err) ==
    Len(err) = 2 /\ err[1] = "error fetching status for service"

IsProcessNotRunning(err) == err = << "job failed during startup" >>

IsReadinessRejected(err) ==
    Len(err) = 2 /\ err[1] = "unexpected response from node"

\* The marker token and the success message the specification gives each intent.
IntentToken ==
    [Bootstrap |-> "NEEDS_BOOTSTRAP", Join |-> "CLUSTERED", SingleNode |-> "SINGLE_NODE"]

IntentMessage ==
    [Bootstrap  |-> "cluster bootstrap successful",
     Join       |-> "join cluster successful",
     SingleNode |-> "single node start successful"]

\* p took the step.
Stepped(p) ==
    << pc[p], op[p], trace[p], result[p], markerAtStart[p] >>'
        # << pc[p], op[p], trace[p], result[p], markerAtStart[p] >>

Last(p) == trace[p][Len(trace[p])]

\* C1: in every start operation, a Start command is preceded in that same
\* operation by a successful write of the state file, and when the operations
\* are invoked one at a time the marker holds the token of the operation's
\* intent at the moment Start is issued.
C1_WriteBeforeStart ==
    \A p \in Procs :
        \A i \in Calls(p, "Start") :
            /\ op[p] \in StartIntents
            /\ \E j \in 1 .. (i - 1) :
                /\ trace[p][j].call = "WriteFile"
                /\ trace[p][j].err = NoErr
            /\ markerAtStart[p] = IntentToken[op[p]]

C1_Witness ==
    \E p \in Procs :
        /\ op[p] = "SingleNode"
        /\ Count(p, "Start") = 1
        /\ markerAtStart[p] = "SINGLE_NODE"
        /\ \E q \in Procs : q # p /\ op[q] = "Join" /\ Count(q, "Start") = 1

\* C2: a start operation whose write of the state file failed has returned a
\* persistence failure and has made no other call: no Start, no Stop, no
\* Status query and no readiness probe.
C2_FailClosed ==
    \A p \in Procs :
        (/\ op[p] \in StartIntents
         /\ Count(p, "WriteFile") > 0
         /\ trace[p][1].err # NoErr)
            => /\ pc[p] = "done"
               /\ result[p].msg = ""
               /\ IsPersistenceFailure(result[p].err)
               /\ Len(trace[p]) = 1

C2_Witness ==
    \E p \in Procs :
        /\ op[p] = "Bootstrap"
        /\ Count(p, "WriteFile") = 1
        /\ trace[p][1].err # NoErr
        /\ pc[p] = "done"
        /\ marker = ""

\* C3: for the arbitrator, Bootstrap has returned InvalidIntent without any
\* call (no write, no Start, Stop, Status, probe), and its step leaves the
\* marker as it was.
C3_ArbitratorState ==
    \A p \in Procs :
        (op[p] = "Bootstrap" /\ serviceName = "garbd")
            => /\ pc[p] = "done"
               /\ result[p].msg = ""
               /\ IsInvalidIntent(result[p].err)
               /\ trace[p] = << >>

C3_ArbitratorStep ==
    \A p \in Procs :
        (Stepped(p) /\ op'[p] = "Bootstrap" /\ serviceName = "garbd")
            => marker' = marker

C3_ArbitratorBootstrap == [] C3_ArbitratorState /\ [][C3_ArbitratorStep]_vars

C3_Witness ==
    \E p \in Procs :
        /\ op[p] = "Bootstrap"
        /\ serviceName = "garbd"
        /\ IsInvalidIntent(result[p].err)
        /\ marker \in Tokens

\* C4: Join and SingleNode are never refused for the service identity: for
\* every service name their first call is the write of the state file, a
\* successful write sets the marker to CLUSTERED resp. SINGLE_NODE and is
\* followed by Start, and a successful Start by the first status query.
C4_JoinSingleState ==
    \A p \in Procs :
        op[p] \in { "Join", "SingleNode" }
            => /\ ~ IsInvalidIntent(result[p].err)
               /\ Len(trace[p]) >= 1
               /\ trace[p][1].call = "WriteFile"
               /\ trace[p][1].err = NoErr
                    => \/ pc[p] = "start" /\ Len(trace[p]) = 1
                       \/ Len(trace[p]) >= 2 /\ trace[p][2].call = "Start"
               /\ (Len(trace[p]) >= 2 /\ trace[p][2].err = NoErr)
                    => \/ pc[p] = "wait" /\ Len(trace[p]) = 2
                       \/ Len(trace[p]) >= 3 /\ trace[p][3].call = "Status"

C4_JoinSingleStep ==
    \A p \in Procs :
        (/\ Stepped(p)
         /\ op'[p] \in { "Join", "SingleNode" }
         /\ Len(trace'[p]) = 1
         /\ trace'[p][1].err = NoErr)
            => marker' = IntentToken[op'[p]]

C4_JoinSingleUnrestricted == [] C4_JoinSingleState /\ [][C4_JoinSingleStep]_vars

C4_Witness ==
    \E p \in Procs :
        /\ serviceName = "garbd"
        /\ op[p] = "Join"
        /\ marker = "CLUSTERED"
        /\ result[p] = [msg |-> "join cluster successful", err |-> NoErr]
        /\ Count(p, "Get") = 2

\* C5: in a start operation, a status query that returned an error is the
\* last call of the operation (no probe on that tick, no later query or
\* probe), and the operation has returned StatusQueryFailed.
C5_StatusErrorEndsWait ==
    \A p \in Procs :
        \A i \in Calls(p, "Status") :
            (op[p] \in StartIntents /\ trace[p][i].err # NoErr)
                => /\ i = Len(trace[p])
                   /\ pc[p] = "done"
                   /\ result[p].msg = ""
                   /\ IsStatusQueryFailed(result[p].err)

C5_Witness ==
    \E p \in Procs :
        /\ op[p] \in StartIntents
        /\ Count(p, "Status") = 2
        /\ Count(p, "Get") = 1
        /\ Last(p).call = "Status"
        /\ Last(p).err # NoErr
        /\ pc[p] = "done"

\* C6: in a start operation, a status query that answered anything but the
\* running sentinel (monit_client.ServiceRunning) is the last call of the operation (no probe on that tick, no
\* later tick), and the operation has returned ProcessNotRunning.
C6_NotRunningEndsWait ==
    \A p \in Procs :
        \A i \in Calls(p, "Status") :
            (/\ op[p] \in StartIntents
             /\ trace[p][i].err = NoErr
             /\ trace[p][i].status # ServiceRunning)
                => /\ i = Len(trace[p])
                   /\ pc[p] = "done"
                   /\ result[p].msg = ""
                   /\ IsProcessNotRunning(result[p].err)

C6_Witness ==
    \E p \in Procs :
        /\ op[p] \in StartIntents
        /\ Count(p, "Status") = 2
        /\ Last(p).call = "Status"
        /\ Last(p).err = NoErr
        /\ Last(p).status = "initializing"
        /\ pc[p] = "done"

\* The probes of p's operation that ended in a transport error.
TransportFailures(p) == { i \in Calls(p, "Get") : trace[p][i].err # NoErr }

\* C7: a wait whose status queries all said running, whose first N probes
\* failed in transport and whose last probe got a 200 has made exactly N+1
\* status queries and N+1 probes, and the operation has returned the success
\* message of its intent; a probe failing in transport leaves the wait polling.
C7_TransportErrorsRetried ==
    \A p \in Procs :
        (op[p] \in StartIntents /\ Len(trace[p]) > 0 /\ Last(p).call = "Get")
            => /\ Last(p).err # NoErr
                    => pc[p] = "wait" /\ result[p] = NoResult
               /\ (/\ Last(p).err = NoErr
                   /\ Last(p).res.StatusCode = 200
                   /\ \A i \in Calls(p, "Status") :
                        trace[p][i].err = NoErr /\ trace[p][i].status = ServiceRunning
                   /\ \A i \in Calls(p, "Get") \ { Len(trace[p]) } :
                        trace[p][i].err # NoErr)
                    => /\ pc[p] = "done"
                       /\ result[p] = [msg |-> IntentMessage[op[p]], err |-> NoErr]
                       /\ Count(p, "Status") = Cardinality(TransportFailures(p)) + 1
                       /\ Count(p, "Get") = Cardinality(TransportFailures(p)) + 1

C7_Witness ==
    \E p \in Procs :
        /\ op[p] = "Join"
        /\ Cardinality(TransportFailures(p)) = 2
        /\ Count(p, "Get") = 3
        /\ Last(p).res.StatusCode = 200
        /\ result[p].msg = "join cluster successful"
        /\ marker = "CLUSTERED"

\* C8: in a start operation, a probe answered by a response whose status is
\* not 200 is the last call of the operation, however many probes before it
\* failed in transport, and the operation has returned ReadinessRejected.
C8_Non200EndsWait ==
    \A p \in Procs :
        \A i \in Calls(p, "Get") :
            (/\ op[p] \in StartIntents
             /\ trace[p][i].err = NoErr
             /\ trace[p][i].res.StatusCode # 200)
                => /\ i = Len(trace[p])
                   /\ pc[p] = "done"
                   /\ result[p].msg = ""
                   /\ IsReadinessRejected(result[p].err)

C8_Witness ==
    \E p \in Procs :
        /\ op[p] \in StartIntents
        /\ Cardinality(TransportFailures(p)) = 2
        /\ Count(p, "Get") = 3
        /\ Last(p).res.StatusCode = 201
        /\ pc[p] = "done"

\* C9: Stop has made one call, the Stop command, and has returned "stop
\* successful" when that call succeeded and the call's own error otherwise;
\* its step leaves the marker as it was.
C9_StopState ==
    \A p \in Procs :
        op[p] = "Stop"
            => /\ pc[p] = "done"
               /\ Len(trace[p]) = 1
               /\ trace[p][1].call = "Stop"
               /\ trace[p][1].err = NoErr
                    => result[p] = [msg |-> "stop successful", err |-> NoErr]
               /\ trace[p][1].err # NoErr
                    => result[p] = [msg |-> "", err |-> trace[p][1].err]

C9_StopStep ==
    \A p \in Procs :
        (Stepped(p) /\ op'[p] = "Stop") => marker' = marker

C9_StopOnly == [] C9_StopState /\ [][C9_StopStep]_vars

C9_Witness ==
    \E p \in Procs :
        /\ op[p] = "Stop"
        /\ trace[p][1].err # NoErr
        /\ result[p].msg = ""
        /\ marker \in Tokens

\* C10: in a start operation, a Start command that failed is the only Start
\* of the operation, no status query and no probe was made, and the operation
\* has returned the error of Start as it was.
C10_StartFailureSurfaced ==
    \A p \in Procs :
        \A i \in Calls(p, "Start") :
            (op[p] \in StartIntents /\ trace[p][i].err # NoErr)
                => /\ pc[p] = "done"
                   /\ result[p] = [msg |-> "", err |-> trace[p][i].err]
                   /\ Count(p, "Start") = 1
                   /\ Count(p, "Status") = 0
                   /\ Count(p, "Get") = 0

C10_Witness ==
    \E p \in Procs :
        /\ op[p] = "SingleNode"
        /\ Count(p, "Start") = 1
        /\ Last(p).call = "Start"
        /\ Last(p).err # NoErr
        /\ marker = "SINGLE_NODE"

\* C11: a start operation has returned a success message only if its trace
\* is a successful write, a successful Start and ticks of which the last is a
\* status query answered by the running sentinel followed by a probe answered
\* 200, and the message is the one of the operation's intent.
C11_SuccessOnlyWhenReady ==
    \A p \in Procs :
        (op[p] \in StartIntents /\ pc[p] = "done" /\ result[p].msg # "")
            => /\ result[p] = [msg |-> IntentMessage[op[p]], err |-> NoErr]
               /\ Len(trace[p]) >= 4
               /\ trace[p][1].call = "WriteFile" /\ trace[p][1].err = NoErr
               /\ trace[p][2].call = "Start" /\ trace[p][2].err = NoErr
               /\ trace[p][Len(trace[p]) - 1].call = "Status"
               /\ trace[p][Len(trace[p]) - 1].err = NoErr
               /\ trace[p][Len(trace[p]) - 1].status = ServiceRunning
               /\ Last(p).call = "Get"
               /\ Last(p).err = NoErr
               /\ Last(p).res.StatusCode = 200

C11_Witness ==
    \E p \in Procs :
        /\ op[p] = "Join"
        /\ pc[p] = "done"
        /\ result[p].msg = "join cluster successful"
        /\ Len(trace[p]) = 4

\* C12: every operation that has returned has returned exactly one of a
\* non-empty string and an error.
C12_ExactlyOneOfResultAndError ==
    \A p \in Procs :
        pc[p] = "done" => ((result[p].msg # "") # (result[p].err # NoErr))

\* C16: the marker changes only in the step of a start operation whose write
\* succeeded, and then to the token of that operation's intent; hence after
\* operations invoked one at a time it is the token of the most recent
\* successful write, and Stop, Status, a refused Bootstrap, Start and the
\* ticks of the wait leave it as it was.
C16_MarkerIsLastWrittenToken ==
    [][ /\ marker' # marker
            => \E p \in Procs :
                /\ Stepped(p)
                /\ op'[p] \in StartIntents
                /\ Len(trace'[p]) = 1
                /\ trace'[p][1].call = "WriteFile"
                /\ trace'[p][1].err = NoErr
        /\ \A p \in Procs :
            (/\ Stepped(p)
             /\ op'[p] \in StartIntents
             /\ Len(trace'[p]) = 1
             /\ trace'[p][1].err = NoErr)
                => marker' = IntentToken[op'[p]] ]_vars

\* C18: in a start operation every probe directly follows a status query
\* answered by the running sentinel, every status query directly follows the
\* successful Start or a probe that failed in transport, so there are at most
\* as many probes as status queries and at most one more query than probes;
\* a query or probe is only made by a handler that is in the wait.
C18_TickState ==
    \A p \in Procs :
        op[p] \in StartIntents
            => /\ \A i \in Calls(p, "Get") :
                    /\ i > 1
                    /\ trace[p][i - 1].call = "Status"
                    /\ trace[p][i - 1].err = NoErr
                    /\ trace[p][i - 1].status = ServiceRunning
               /\ \A i \in Calls(p, "Status") :
                    /\ i > 2
                    /\ \/ trace[p][i - 1].call = "Start" /\ trace[p][i - 1].err = NoErr
                       \/ trace[p][i - 1].call = "Get" /\ trace[p][i - 1].err # NoErr
               /\ Count(p, "Get") <= Count(p, "Status")
               /\ Count(p, "Status") <= Count(p, "Get") + 1

C18_TickStep ==
    \A p \in Procs :
        (/\ Stepped(p)
         /\ op'[p] \in StartIntents
         /\ Len(trace'[p]) > 0
         /\ trace'[p][Len(trace'[p])].call \in { "Status", "Get" })
            => /\ pc[p] \in { "wait", "probe" }
               /\ op'[p] = op[p]
               /\ Len(trace'[p]) = Len(trace[p]) + 1

C18_OneQueryPerTick == [] C18_TickState /\ [][C18_TickStep]_vars

C18_Witness ==
    \E p \in Procs :
        /\ op[p] \in StartIntents
        /\ Count(p, "Status") = 3
        /\ Count(p, "Get") = 2
        /\ pc[p] = "probe"

\* C19: the handlers are not serialised: a start handler can be invoked
\* whenever its goroutine runs no handler, whatever the other goroutine does;
\* the marker a handler finds at its Start command is then a token or an
\* emptied file, not necessarily the token of its own intent (the witness
\* is a Bootstrap that issued Start while the marker held the token of a Join).
C19_NotSerialised ==
    \A p \in Procs :
        /\ pc[p] \in { "idle", "done" }
            => /\ ENABLED StartServiceJoin(p)
               /\ ENABLED StartServiceSingleNode(p)
               /\ ENABLED StartServiceBootstrap(p)
        /\ Count(p, "Start") > 0 => markerAtStart[p] \in Tokens \cup { "" }

C19_Witness ==
    \E p, q \in Procs :
        /\ op[p] = "Bootstrap"
        /\ op[q] = "Join"
        /\ Count(p, "Start") = 1
        /\ markerAtStart[p] = "CLUSTERED"
        /\ pc[q] = "start"

\* C20: while a start operation is in its wait, Stop and Status can be
\* invoked on the other goroutine, and their step changes nothing of the
\* waiting operation; a start operation whose tick then finds a status other
\* than the running sentinel has returned ProcessNotRunning and no message.
C20_StopEnabled ==
    \A p, q \in Procs :
        /\ (p # q /\ pc[q] \in { "wait", "probe" } /\ pc[p] \in { "idle", "done" })
            => ENABLED StopService(p) /\ ENABLED GetStatus(p)
        /\ (/\ op[q] \in StartIntents
            /\ Len(trace[q]) > 0
            /\ Last(q).call = "Status"
            /\ Last(q).err = NoErr
            /\ Last(q).status # ServiceRunning)
            => /\ pc[q] = "done"
               /\ IsProcessNotRunning(result[q].err)
               /\ result[q].msg = ""

C20_StopStep ==
    \A p, q \in Procs :
        (p # q /\ Stepped(p) /\ op'[p] \in { "Stop", "Status" })
            => /\ pc'[p] = "done"
               /\ << pc[q], op[q], trace[q], result[q] >>'
                    = << pc[q], op[q], trace[q], result[q] >>

C20_StopDuringWait == [] C20_StopEnabled /\ [][C20_StopStep]_vars

C20_Witness ==
    \E p, q \in Procs :
        /\ op[p] = "Stop"
        /\ result[p].msg = "stop successful"
        /\ op[q] \in StartIntents
        /\ Count(q, "Status") = 2
        /\ Last(q).status = "stopped"
        /\ Last(q).err = NoErr
        /\ IsProcessNotRunning(result[q].err)

\* C13: every start operation that is in the readiness wait eventually
\* returns to its caller.
C13_WaitReturns ==
    \A p \in Procs : (pc[p] \in { "wait", "probe" }) ~> (pc[p] = "done")

\* A tick entry that decides the wait: a failed status query, a status other
\* than the running sentinel, or a response of the readiness endpoint.
Decisive(e) ==
    \/ e.call = "Status" /\ (e.err # NoErr \/ e.status # ServiceRunning)
    \/ e.call = "Get" /\ e.err = NoErr

\* C17: the wait returns on the first decisive tick and only on a decisive
\* tick: a decisive entry is the last call of the operation, which has
\* returned; an operation that entered the wait has returned only after a
\* decisive entry; while no entry is decisive the handler is polling and its
\* next step is enabled, and under fair ticking that step is taken.
C17_DecisiveState ==
    \A p \in Procs :
        op[p] \in StartIntents
            => /\ \A i \in DOMAIN trace[p] :
                    Decisive(trace[p][i]) => i = Len(trace[p]) /\ pc[p] = "done"
               /\ (pc[p] = "done" /\ Len(trace[p]) >= 3) => Decisive(Last(p))
               /\ (/\ Len(trace[p]) >= 2
                   /\ trace[p][2].err = NoErr
                   /\ ~ Decisive(Last(p)))
                    => /\ pc[p] \in { "wait", "probe" }
                       /\ pc[p] = "wait" => ENABLED (TickStatus(p) \/ PollStatus(p))
                       /\ pc[p] = "probe" => ENABLED TickProbe(p)

C17_ReturnsOnDecisiveTick ==
    /\ [] C17_DecisiveState
    /\ \A p \in Procs :
        /\ (pc[p] = "wait") ~> (pc[p] \in { "probe", "done" })
        /\ (pc[p] = "probe") ~> (pc[p] \in { "wait", "done" })

C17_Witness ==
    \E p \in Procs :
        /\ op[p] \in StartIntents
        /\ pc[p] = "done"
        /\ Count(p, "Status") = 3
        /\ Count(p, "Get") = 3
        /\ Last(p).res.StatusCode = 503
        /\ \A i \in Calls(p, "Get") \ { Len(trace[p]) } : trace[p][i].err # NoErr

\* The requests before the i-th that reached the operation of its endpoint.
EarlierCalls(i) ==
    Cardinality({ j \in 1 .. (i - 1) :
        /\ apiLog[j].endpoint = apiLog[i].endpoint
        /\ apiLog[j].creds = << "fake-username", "fake-password" >> })

\* C14: every request to a lifecycle endpoint that carries the configured
\* user name and password is answered 200 and has raised the call count of
\* the endpoint's operation by one; every other request to a lifecycle
\* endpoint is answered 401 and has left that call count as it was.
C14_AuthGuardsLifecycle ==
    \A i \in DOMAIN apiLog :
        apiLog[i].endpoint \in
            { "stop_mysql", "start_mysql_bootstrap", "start_mysql_join",
              "start_mysql_single_node", "mysql_status", "sequence_number" }
            => IF apiLog[i].creds = << "fake-username", "fake-password" >>
                 THEN apiLog[i].code = 200 /\ apiLog[i].calls = EarlierCalls(i) + 1
                 ELSE apiLog[i].code = 401 /\ apiLog[i].calls = EarlierCalls(i)

C14_Witness ==
    /\ Len(apiLog) = 2
    /\ apiLog[1].endpoint = "start_mysql_single_node"
    /\ apiLog[1].creds = << "fake-username", "wrong-password" >>
    /\ apiLog[1].code = 401
    /\ apiLog[2].endpoint = "start_mysql_single_node"
    /\ apiLog[2].code = 200
    /\ apiCalls["StartServiceSingleNode"] = 1

\* C15: after Write calls on a log file that was missing or empty at the
\* first of them, the file is the header line followed by the row of each
\* call, in the order of the calls.
C15_HeaderOnceThenRows ==
    logWritten # << >>
        => /\ logFile.exists
           /\ logFile.lines =
                << << "timestamp", "a,b,c,d,e,f,g,h,i" >> >>
                    \o [i \in 1 .. Len(logWritten) |->
                            << logWritten[i], "1,2,3,4,5,6,7,8,9" >>]

C15_Witness ==
    /\ logWritten = << "happy-time", "sad-time" >>
    /\ Len(logFile.lines) = 3
    /\ logFile.lines[3][1] = "sad-time"
====
